---- MODULE Spec2Model ----
(***************************************************************************)
(* A model of pfrl's Option-Critic agent (pfrl/agents/option_critic.py)    *)
(* and of the Agent base classes (pfrl/agent.py): the option-selection     *)
(* loop of OC.act / OC.observe with the epsilon schedule of                *)
(* OptionCriticNetwork, the eval_mode context managers of Agent and        *)
(* HRLAgent, the recursive save / load of AttributeSavingMixin, and the    *)
(* save / load methods of OC.                                              *)
(*                                                                         *)
(* Floats are fixed-point integers: probabilities in units of 1/EpsUnit,   *)
(* math.exp in units of 1/ExpScale.                                        *)
(***************************************************************************)
EXTENDS Integers, Sequences, FiniteSets, TLC

VARIABLES
    \* ---- OptionCriticNetwork / OC (option_critic.py) ----
    phase,              \* "start" | "net" (network constructed) | "agent" (OC constructed)
    nets,               \* the heap of OptionCriticNetwork objects: id -> fields
    oc,                 \* OC.oc: reference to the live network
    oc_prime,           \* OC.oc_prime: reference to the target network
    num_options,        \* OC.num_options (the agent's own argument)
    option,             \* OC.option
    option_termination, \* OC.option_termination
    exc,                \* the exception the last call raised, or "none"
    last,               \* what the last agent call did (observation of the run)
    episode,            \* "fresh" | "active" | "boundary" (observation of the run)
    reads,              \* number of reads of the epsilon property so far
    selections,         \* number of act calls that assigned self.option
    \* ---- Agent.eval_mode / HRLAgent.eval_mode (agent.py) ----
    training,           \* the training flag of each agent object
    scopes,             \* the open `with agent.eval_mode():` blocks, innermost last
    raised,             \* an exception is propagating out of a block
    lastExit,           \* the scope exit that has just happened, or NoExit
    \* ---- AttributeSavingMixin (agent.py) ----
    attrs,              \* object graph: object -> its saved_attributes' values
    stack,              \* call stack of __save / __load frames
    status,             \* "idle" | "save" | "load" | "done" | an exception name
    files,              \* the <attr>.pt files on disk (paths)
    dirs,               \* the directories on disk (paths)
    \* ---- OC.save / OC.load (option_critic.py) ----
    ck_params,          \* network parameters of each OC agent
    ck_disk,            \* directory -> parameters stored there, or Null
    ck_saved,           \* directory -> agent that last called save on it, or 0
    ck_restored,        \* agent -> agent whose checkpoint it has loaded, or 0
    ck_exc              \* the exception the last save / load call raised, or "none"

ocVars == <<phase, nets, oc, oc_prime, num_options, option, option_termination,
            exc, last, episode, reads, selections>>
evVars == <<training, scopes, raised, lastExit>>
svVars == <<attrs, stack, status, files, dirs>>
ckVars == <<ck_params, ck_disk, ck_saved, ck_restored, ck_exc>>
vars == <<ocVars, evVars, svVars, ckVars>>

Null == "null"

(***************************************************************************)
(* Bounds of the model.                                                    *)
(***************************************************************************)
MaxSteps == 3      \* epsilon reads per run
MaxOptions == 2    \* largest num_options / width of the Q head
MaxNest == 3       \* nesting depth of eval_mode blocks
MaxObjs == 3       \* objects in a saveable-attribute graph
MaxAttrs == 2      \* saved_attributes per object

(***************************************************************************)
(* Fixed-point arithmetic for line 92:                                     *)
(*   eps_min + (eps_start - eps_min) * exp(-num_steps / eps_decay)         *)
(***************************************************************************)
EpsUnit == 1000
ExpScale == 100000
ExpTerms == 24

\* a / b rounded to the nearest integer (b # 0)
RDiv(a, b) ==
    IF b > 0 THEN (2 * a + b) \div (2 * b)
             ELSE (2 * (0 - a) - b) \div (2 * (0 - b))

\* the k-th term of the Taylor series of exp(-n/d), times ExpScale
RECURSIVE ExpTerm(_, _, _)
ExpTerm(k, n, d) ==
    IF k = 0 THEN ExpScale
             ELSE RDiv(ExpTerm(k - 1, n, d) * (0 - n), d * k)

RECURSIVE ExpSum(_, _, _)
ExpSum(k, n, d) ==
    IF k = 0 THEN ExpTerm(0, n, d)
             ELSE ExpSum(k - 1, n, d) + ExpTerm(k, n, d)

\* the exponents -n/d a run can ask for: n reads so far, d a nonzero eps_decay
ExpDecays == {-2, 1, 2}

ExpTable == [n \in 0..MaxSteps, d \in ExpDecays |-> ExpSum(ExpTerms, n, d)]

\* math.exp(-n / d) in units of 1/ExpScale (d # 0)
exp(n, d) == ExpTable[n, d]

\* the value line 92 computes, in units of 1/EpsUnit (eps_decay # 0)
EpsValue(eps_start, eps_min, eps_decay, n) ==
    eps_min + RDiv((eps_start - eps_min) * exp(n, eps_decay), ExpScale)


(***************************************************************************)
(* OptionCriticNetwork (option_critic.py 12-95)                            *)
(***************************************************************************)
\* constructor arguments tried: eps_start and eps_min in units of 1/EpsUnit
EpsStartValues == {EpsUnit \div 10, EpsUnit}
EpsMinValues == {EpsUnit \div 10, EpsUnit \div 2}
EpsDecayValues == <<1, 2, 0, -2>>
ParamValues == {0, 1}          \* abstract values of the network's tensors
NumActionsValues == {1, 2}
RandValues == {0, EpsUnit \div 2, EpsUnit - 1}    \* np.random.rand(), in [0, 1)

\* OptionCriticNetwork.__init__: stores its arguments as given, num_steps = 0
NewNet(es, em, ed, no, na, qw, p) ==
    [eps_start |-> es, eps_min |-> em, eps_decay |-> ed, num_steps |-> 0,
     num_options |-> no, num_actions |-> na, q_width |-> qw, params |-> p]

\* the epsilon property: the value read and the network after the read
epsilon(net) ==
    [eps |-> EpsValue(net.eps_start, net.eps_min, net.eps_decay, net.num_steps),
     net |-> [net EXCEPT !.num_steps = @ + 1]]

\* get_action: options_W[option] raises IndexError outside [0, num_options);
\* otherwise the action a sampled from the option's categorical distribution
get_action(net, opt, a) ==
    IF opt \in 0..(net.num_options - 1)
    THEN [exc |-> "none", action |-> a]
    ELSE [exc |-> "IndexError", action |-> -1]

\* greedy_option: Q(state).argmax(dim=-1), an index into the Q head's output
GreedyOptions(net) == 0..(net.q_width - 1)

(***************************************************************************)
(* OC (option_critic.py 97-145)                                            *)
(***************************************************************************)
\* a second name for the same object, as `self.oc_prime = oc` would give
shallow_copy(heap, ref) == [heap |-> heap, ref |-> ref]

\* copy.deepcopy(oc) on the heap: a new object with the same field values
deepcopy(heap, ref) == [heap |-> Append(heap, heap[ref]), ref |-> Len(heap) + 1]

NoCall ==
    [op |-> "none", entry |-> "fresh", selected |-> FALSE, read |-> FALSE,
     eps |-> 0, n |-> 0, before |-> 0, action |-> -1]

InitOC ==
    /\ phase = "start"
    /\ nets = << >>
    /\ oc = 0
    /\ oc_prime = 0
    /\ num_options = 0
    /\ option = 0
    /\ option_termination = TRUE
    /\ exc = "none"
    /\ last = NoCall
    /\ episode = "fresh"
    /\ reads = 0
    /\ selections = 0

\* OptionCriticNetwork(...): no argument is checked
NewNetwork ==
    /\ phase = "start"
    /\ \E k \in DOMAIN EpsDecayValues, es \in EpsStartValues, em \in EpsMinValues,
          no \in 1..MaxOptions, na \in NumActionsValues, qw \in 1..MaxOptions,
          p \in ParamValues :
           nets' = <<NewNet(es, em, EpsDecayValues[k], no, na, qw, p)>>
    /\ phase' = "net"
    /\ UNCHANGED <<oc, oc_prime, num_options, option, option_termination, exc,
                   last, episode, reads, selections>>
    /\ UNCHANGED <<evVars, svVars, ckVars>>

\* OC(oc, optimizer, num_options)
NewAgent ==
    /\ phase = "net"
    /\ \E n \in 1..MaxOptions : num_options' = n
    /\ LET cp == deepcopy(nets, 1)
       IN /\ oc' = 1
          /\ oc_prime' = cp.ref
          /\ nets' = cp.heap
    /\ option' = 0
    /\ option_termination' = TRUE
    /\ phase' = "agent"
    /\ UNCHANGED <<exc, last, episode, reads, selections>>
    /\ UNCHANGED <<evVars, svVars, ckVars>>

\* OC.act(obs) with the random draws r (np.random.rand), c (np.random.choice),
\* a (the Categorical sample) and g, the argmax of Q on obs
ActWith(r, c, g, a) ==
    LET net == nets[oc]
        sel == option_termination
        zero == sel /\ net.eps_decay = 0    \* line 92 raises ZeroDivisionError
        e == epsilon(net)
        chose == sel /\ ~zero
        net1 == IF chose THEN e.net ELSE net
        opt1 == IF chose THEN (IF r < e.eps THEN c ELSE g) ELSE option
        res == get_action(net1, opt1, a)
    IN /\ nets' = [nets EXCEPT ![oc] = net1]
       /\ option' = opt1
       /\ exc' = IF zero THEN "ZeroDivisionError" ELSE res.exc
       /\ reads' = IF sel THEN reads + 1 ELSE reads
       /\ selections' = IF chose THEN selections + 1 ELSE selections
       /\ episode' = IF chose THEN "active" ELSE episode
       /\ last' = [op |-> "act", entry |-> episode, selected |-> chose,
                   read |-> chose, eps |-> IF chose THEN e.eps ELSE 0,
                   n |-> net.num_steps, before |-> option,
                   action |-> IF zero THEN -1 ELSE res.action]

Act ==
    /\ phase = "agent"
    /\ reads < MaxSteps
    /\ \E r \in RandValues, c \in 0..(num_options - 1),
          g \in GreedyOptions(nets[oc]), a \in 0..(nets[oc].num_actions - 1) :
           ActWith(r, c, g, a)
    /\ UNCHANGED <<phase, oc, oc_prime, num_options, option_termination>>
    /\ UNCHANGED <<evVars, svVars, ckVars>>

\* OC.observe(obs, reward, done, reset): `return`
Observe ==
    /\ phase = "agent"
    /\ \E done \in BOOLEAN, reset \in BOOLEAN :
           /\ episode' = IF done \/ reset THEN "boundary" ELSE episode
           /\ last' = [NoCall EXCEPT !.op = "observe", !.entry = episode,
                                     !.before = option]
    /\ exc' = "none"
    /\ UNCHANGED <<phase, nets, oc, oc_prime, num_options, option,
                   option_termination, reads, selections>>
    /\ UNCHANGED <<evVars, svVars, ckVars>>


(***************************************************************************)
(* Agent.eval_mode (agent.py 69-76) and HRLAgent.eval_mode (138-147)       *)
(***************************************************************************)
\* one Agent object and one HRLAgent object
EvAgents == {"agent", "hrl"}

NoExit == [who |-> "none", entry |-> FALSE, how |-> "none"]

\* HRLAgent.change_to_eval / change_to_train: the flag after the call
change_to_eval(t) == FALSE

change_to_train(t) == TRUE

\* the flag after `try:` up to the yield: line 73 / line 142
eval_enter(a, t) == IF a = "hrl" THEN change_to_eval(t) ELSE FALSE

\* the flag after the `finally:` clause of Agent.eval_mode: line 76
agent_eval_exit(orig_mode) == orig_mode

\* a finally clause that calls change_to_train whatever orig_mode was
hrl_eval_exit_always_train(orig_mode) == change_to_train(orig_mode)

\* the flag after the `finally:` clause of HRLAgent.eval_mode: lines 145-147
hrl_eval_exit(orig_mode) ==
    IF orig_mode THEN change_to_train(orig_mode) ELSE orig_mode

eval_exit(a, orig_mode) ==
    IF a = "hrl" THEN hrl_eval_exit(orig_mode) ELSE agent_eval_exit(orig_mode)

InitEv ==
    /\ training = [a \in EvAgents |-> TRUE]
    /\ scopes = << >>
    /\ raised = FALSE
    /\ lastExit = NoExit

\* `with a.eval_mode():` is entered: orig_mode is captured, the flag cleared
EvalEnter(a) ==
    /\ ~raised
    /\ Len(scopes) < MaxNest
    /\ scopes' = Append(scopes, [who |-> a, orig_mode |-> training[a],
                                 entry |-> training[a], switched |-> FALSE])
    /\ training' = [training EXCEPT ![a] = eval_enter(a, @)]
    /\ lastExit' = NoExit
    /\ UNCHANGED raised
    /\ UNCHANGED <<ocVars, svVars, ckVars>>

\* the finally clause of the innermost open block
EvalFinally(how) ==
    LET top == scopes[Len(scopes)]
    IN /\ training' = [training EXCEPT ![top.who] = eval_exit(top.who, top.orig_mode)]
       /\ scopes' = SubSeq(scopes, 1, Len(scopes) - 1)
       /\ lastExit' = [who |-> top.who, entry |-> top.entry, how |-> how]

\* the block ends normally
EvalExit ==
    /\ ~raised
    /\ scopes # << >>
    /\ EvalFinally("normal")
    /\ UNCHANGED raised
    /\ UNCHANGED <<ocVars, svVars, ckVars>>

\* an exception leaves the innermost block and goes on propagating
EvalExitError ==
    /\ raised
    /\ scopes # << >>
    /\ EvalFinally("error")
    /\ UNCHANGED raised
    /\ UNCHANGED <<ocVars, svVars, ckVars>>

\* the code inside a block raises
Raise ==
    /\ ~raised
    /\ scopes # << >>
    /\ raised' = TRUE
    /\ lastExit' = NoExit
    /\ UNCHANGED <<training, scopes>>
    /\ UNCHANGED <<ocVars, svVars, ckVars>>

\* an except clause around the current position handles the exception
Catch ==
    /\ raised
    /\ raised' = FALSE
    /\ lastExit' = NoExit
    /\ UNCHANGED <<training, scopes>>
    /\ UNCHANGED <<ocVars, svVars, ckVars>>

\* hrl.change_to_eval() called by the running code
ChangeToEval ==
    /\ ~raised
    /\ training' = [training EXCEPT !["hrl"] = change_to_eval(@)]
    /\ lastExit' = NoExit
    /\ UNCHANGED <<scopes, raised>>
    /\ UNCHANGED <<ocVars, svVars, ckVars>>

\* hrl.change_to_train() called by the running code; the open blocks of hrl
\* it is called in are marked
ChangeToTrain ==
    /\ ~raised
    /\ training' = [training EXCEPT !["hrl"] = change_to_train(@)]
    /\ scopes' = [i \in DOMAIN scopes |->
                    IF scopes[i].who = "hrl"
                    THEN [scopes[i] EXCEPT !.switched = TRUE]
                    ELSE scopes[i]]
    /\ lastExit' = NoExit
    /\ UNCHANGED raised
    /\ UNCHANGED <<ocVars, svVars, ckVars>>


(***************************************************************************)
(* AttributeSavingMixin (agent.py 150-204)                                 *)
(*                                                                         *)
(* Objects 1..MaxObjs are AttributeSavingMixin instances; object 1 is the  *)
(* one save / load is called on.  The k-th name of saved_attributes is     *)
(* written k; a path is the sequence of names below the dirname of the     *)
(* outermost call.                                                         *)
(***************************************************************************)
Objs == 1..MaxObjs

\* what getattr(self, attr) gives: another mixin object, None, an object
\* with state_dict / load_state_dict, or nothing (hasattr is False)
AttrValues ==
    {[kind |-> "obj", id |-> o] : o \in Objs}
        \cup {[kind |-> k, id |-> 0] : k \in {"none", "leaf", "missing"}}

AttrSeqs == UNION {[1..n -> AttrValues] : n \in 0..MaxAttrs}

\* Python raises RecursionError at its recursion limit, some hundreds of
\* nested calls.  A traversal need not be followed that far: __save writes
\* files only at paths of at most MaxObjs names (it never enters an ancestor
\* again), so a call of __load more than MaxObjs deep finds no file and what
\* it does depends on its object alone.  Among the MaxObjs + 1 calls at
\* depths MaxObjs + 1 .. 2 * MaxObjs + 1 two are on the same object, and the
\* later one repeats the earlier one's descent without end.  A traversal
\* that is StackLimit deep and about to go deeper therefore ends in
\* RecursionError, and one that ends otherwise does so before.
StackLimit == 2 * MaxObjs + 1

\* `attr_value is ancestor` for some ancestor in ancestors
IsAncestor(o, ancestors) == \E i \in DOMAIN ancestors : ancestors[i] = o

\* the ancestors list the callee works on: __save hands its own list down
\* (line 174) and the callee appends itself (line 164)
save_callee_ancestors(ancestors, o) == Append(ancestors, o)

\* __load calls attr_value.load (line 197), which starts from [] (line 183)
load_callee_ancestors(ancestors, o) == <<o>>

Frame(o, d, anc) == [obj |-> o, i |-> 1, dir |-> d, anc |-> anc]

InitSv ==
    /\ attrs \in [Objs -> AttrSeqs]
    /\ stack = << >>
    /\ status = "idle"
    /\ files = {}
    /\ dirs = {}

Running == status \in {"save", "load"}

\* obj.save(dirname): __save(dirname, []) makes the directory (line 163)
StartSave ==
    /\ ~Running
    /\ status' = "save"
    /\ stack' = <<Frame(1, << >>, <<1>>)>>
    /\ dirs' = dirs \cup {<< >>}
    /\ UNCHANGED <<attrs, files>>
    /\ UNCHANGED <<ocVars, evVars, ckVars>>

\* obj.load(dirname): __load(dirname, [])
StartLoad ==
    /\ ~Running
    /\ status' = "load"
    /\ stack' = <<Frame(1, << >>, <<1>>)>>
    /\ UNCHANGED <<attrs, files, dirs>>
    /\ UNCHANGED <<ocVars, evVars, ckVars>>

\* an exception ends the whole operation
Fail(e) ==
    /\ status' = e
    /\ stack' = << >>
    /\ UNCHANGED <<files, dirs>>

\* the innermost call moves on to its next attribute
Advance == [stack EXCEPT ![Len(stack)].i = @ + 1]

\* the innermost call returns: ancestors.pop() (lines 179, 204)
Return ==
    /\ stack' = SubSeq(stack, 1, Len(stack) - 1)
    /\ status' = IF Len(stack) = 1 THEN "done" ELSE status
    /\ UNCHANGED <<files, dirs>>

\* one iteration of the loop of __save (lines 165-178), or its return
SaveStep ==
    /\ status = "save"
    /\ LET f == stack[Len(stack)]
           path == Append(f.dir, f.i)
       IN IF f.i > Len(attrs[f.obj]) THEN Return
          ELSE LET v == attrs[f.obj][f.i]
               IN CASE v.kind = "missing" -> Fail("AssertionError")
                    [] v.kind = "none" ->
                         /\ stack' = Advance
                         /\ UNCHANGED <<status, files, dirs>>
                    [] v.kind = "leaf" ->
                         /\ files' = files \cup {path}
                         /\ stack' = Advance
                         /\ UNCHANGED <<status, dirs>>
                    [] v.kind = "obj" ->
                         IF IsAncestor(v.id, f.anc) THEN Fail("AssertionError")
                         ELSE IF Len(stack) >= StackLimit THEN Fail("RecursionError")
                         ELSE /\ stack' = Append(Advance,
                                     Frame(v.id, path, save_callee_ancestors(f.anc, v.id)))
                              /\ dirs' = dirs \cup {path}
                              /\ UNCHANGED <<status, files>>
    /\ UNCHANGED attrs
    /\ UNCHANGED <<ocVars, evVars, ckVars>>

\* one iteration of the loop of __load (lines 188-203), or its return
LoadStep ==
    /\ status = "load"
    /\ LET f == stack[Len(stack)]
           path == Append(f.dir, f.i)
       IN IF f.i > Len(attrs[f.obj]) THEN Return
          ELSE LET v == attrs[f.obj][f.i]
               IN CASE v.kind = "missing" -> Fail("AssertionError")
                    [] v.kind = "none" ->
                         /\ stack' = Advance
                         /\ UNCHANGED <<status, files, dirs>>
                    [] v.kind = "leaf" ->
                         IF path \in files
                         THEN /\ stack' = Advance
                              /\ UNCHANGED <<status, files, dirs>>
                         ELSE Fail("FileNotFoundError")
                    [] v.kind = "obj" ->
                         IF IsAncestor(v.id, f.anc) THEN Fail("AssertionError")
                         ELSE IF Len(stack) >= StackLimit THEN Fail("RecursionError")
                         ELSE /\ stack' = Append(Advance,
                                     Frame(v.id, path, load_callee_ancestors(f.anc, v.id)))
                              /\ UNCHANGED <<status, files, dirs>>
    /\ UNCHANGED attrs
    /\ UNCHANGED <<ocVars, evVars, ckVars>>

(***************************************************************************)
(* OC.save / OC.load (option_critic.py 135-139): `def save(self): return`  *)
(***************************************************************************)
CkAgents == {1, 2}
CkDirs == {"d1", "d2"}

\* the positional arguments of a call: none, or a dirname
CkArgs == {<< >>} \cup {<<d>> : d \in CkDirs}

\* calling a method declared `def m(self)` with these arguments
call_no_arg_method(args) == IF Len(args) = 0 THEN "none" ELSE "TypeError"

InitCk ==
    /\ ck_params \in [CkAgents -> ParamValues]
    /\ ck_disk = [d \in CkDirs |-> Null]
    /\ ck_saved = [d \in CkDirs |-> 0]
    /\ ck_restored = [a \in CkAgents |-> 0]
    /\ ck_exc = "none"

\* agent.save(*args): nothing is written
CkSave(a, args) ==
    /\ ck_exc' = call_no_arg_method(args)
    /\ ck_saved' = IF Len(args) = 1 THEN [ck_saved EXCEPT ![args[1]] = a]
                                     ELSE ck_saved
    /\ UNCHANGED <<ck_params, ck_disk, ck_restored>>
    /\ UNCHANGED <<ocVars, evVars, svVars>>

\* agent.load(*args): nothing is read
CkLoad(a, args) ==
    /\ ck_exc' = call_no_arg_method(args)
    /\ ck_restored' = IF Len(args) = 1 /\ ck_saved[args[1]] \notin {0, a}
                      THEN [ck_restored EXCEPT ![a] = ck_saved[args[1]]]
                      ELSE ck_restored
    /\ UNCHANGED <<ck_params, ck_disk, ck_saved>>
    /\ UNCHANGED <<ocVars, evVars, svVars>>

Save == \E a \in CkAgents, args \in CkArgs : CkSave(a, args)

Load == \E a \in CkAgents, args \in CkArgs : CkLoad(a, args)

(***************************************************************************)
(* Specifications: each runs one part and leaves the others at rest.       *)
(***************************************************************************)
IdleOC == InitOC

IdleEv == InitEv

IdleSv ==
    /\ attrs = [o \in Objs |-> << >>]
    /\ stack = << >>
    /\ status = "idle"
    /\ files = {}
    /\ dirs = {}

IdleCk ==
    /\ ck_params = [a \in CkAgents |-> 0]
    /\ ck_disk = [d \in CkDirs |-> Null]
    /\ ck_saved = [d \in CkDirs |-> 0]
    /\ ck_restored = [a \in CkAgents |-> 0]
    /\ ck_exc = "none"

Init == InitOC /\ IdleEv /\ IdleSv /\ IdleCk

Next == NewNetwork \/ NewAgent \/ Act \/ Observe

Spec == Init /\ [][Next]_vars

InitEval == IdleOC /\ InitEv /\ IdleSv /\ IdleCk

NextEval ==
    \/ \E a \in EvAgents : EvalEnter(a)
    \/ EvalExit
    \/ EvalExitError
    \/ Raise
    \/ Catch
    \/ ChangeToEval
    \/ ChangeToTrain

SpecEval == InitEval /\ [][NextEval]_vars

InitSave == IdleOC /\ IdleEv /\ InitSv /\ IdleCk

NextSave == StartSave \/ StartLoad \/ SaveStep \/ LoadStep

SpecSave == InitSave /\ [][NextSave]_vars

InitCkpt == IdleOC /\ IdleEv /\ IdleSv /\ InitCk

NextCkpt == Save \/ Load

SpecCkpt == InitCkpt /\ [][NextCkpt]_vars


(***************************************************************************)
(* The claims.                                                             *)
(***************************************************************************)

\* C1 (as claimed): once an act call has selected an option, and until an
\* observe call reports done or reset, a further act call does not select
\* again and leaves the current option as it was.
C1_OptionPersists ==
    (last.op = "act" /\ last.entry = "active")
        => (~last.selected /\ option = last.before)

\* C2 (as claimed): the act call that follows an observe call with done or
\* reset performs an option selection.
C2_BoundaryReselects ==
    (last.op = "act" /\ last.entry = "boundary") => last.selected

\* C3 (as claimed): save and load never recurse without bound: no object is
\* entered again while a call on it is still running, whatever the length
\* of the cycle, and the recursion limit is never hit.
C3_CycleRejected ==
    /\ status # "RecursionError"
    /\ \A i, j \in DOMAIN stack : i # j => stack[i].obj # stack[j].obj

\* C4 (as claimed): inside every open eval_mode block the agent's training
\* flag is False, and right after a block is left, normally or by an error,
\* the flag has the value it had when the block was entered.
C4_FlagFalseInBlock ==
    /\ \A i \in DOMAIN scopes : ~training[scopes[i].who]
    /\ lastExit # NoExit => training[lastExit.who] = lastExit.entry

\* C4 (amended): inside every open eval_mode block in which the code has
\* not itself called change_to_train, the agent's training flag is False;
\* and right after any block is left, normally or by an error, nested or
\* not, the flag has the value it had when the block was entered.
C4_EvalModeScoped ==
    /\ \A i \in DOMAIN scopes :
           ~scopes[i].switched => ~training[scopes[i].who]
    /\ lastExit # NoExit => training[lastExit.who] = lastExit.entry

\* C4 witness: an error has just left a nested block of the HRLAgent that
\* was entered with training already False.
C4_Witness ==
    /\ lastExit.who = "hrl"
    /\ lastExit.how = "error"
    /\ ~lastExit.entry
    /\ Len(scopes) >= 1
    /\ scopes[Len(scopes)].who = "hrl"

\* C5 (as claimed): every read of epsilon adds one to num_steps and returns
\* the value computed from num_steps before the addition, so that num_steps
\* of the live network is the number of reads and the number of act calls
\* that selected an option.
C5_EpsilonCounter ==
    phase = "agent" =>
        LET net == nets[oc]
        IN /\ net.num_steps = reads
           /\ net.num_steps = selections
           /\ (last.op = "act" /\ last.read) =>
                  last.eps = EpsValue(net.eps_start, net.eps_min,
                                      net.eps_decay, net.num_steps - 1)

\* C6 (as claimed): every value the epsilon property returns lies between
\* eps_min and eps_start of its network.
C6_EpsilonBounds ==
    (last.op = "act" /\ last.read) =>
        /\ nets[oc].eps_min <= last.eps
        /\ last.eps <= nets[oc].eps_start

\* C7 (as claimed): every constructed network has eps_min <= eps_start and
\* eps_decay > 0.
C7_ConfigRejected ==
    \A i \in DOMAIN nets :
        nets[i].eps_min <= nets[i].eps_start /\ nets[i].eps_decay > 0

\* C8 (as claimed): an agent that has called load(dirname) after another
\* agent called save(dirname) has that agent's network parameters.
C8_CheckpointRoundTrip ==
    \A b \in CkAgents :
        ck_restored[b] # 0 => ck_params[b] = ck_params[ck_restored[b]]

\* C9 (as claimed): the agent's current option is always an index into the
\* live network's per-option action heads, and get_action never raises
\* IndexError.
C9_ValidOption ==
    phase = "agent" =>
        /\ option \in 0..(nets[oc].num_options - 1)
        /\ exc # "IndexError"

\* C10: constructing the agent makes the target network a separate object
\* with the live network's state, and from then on no act or observe call
\* changes the target network or which object it is.
C10_TargetIndependent ==
    [][ /\ (phase = "net" /\ phase' = "agent") =>
               /\ oc_prime' # oc'
               /\ nets'[oc_prime'] = nets[1]
               /\ nets'[oc'] = nets[1]
        /\ phase = "agent" =>
               /\ oc_prime' = oc_prime
               /\ oc_prime # oc
               /\ nets'[oc_prime] = nets[oc_prime]
      ]_vars

\* C10 witness: act has read epsilon, and the live network's num_steps has
\* moved away from the target network's.
C10_Witness ==
    /\ phase = "agent"
    /\ last.op = "act"
    /\ last.read
    /\ nets[oc].num_steps > nets[oc_prime].num_steps

====
